---- MODULE Spec2Model ----
(***************************************************************************)
(* Model of rust_mls, src/lib.rs: the moving-least-squares affine          *)
(* deformation `deform_affine` with its Point and Mat2 helpers.            *)
(*                                                                         *)
(* Every number of the program is an f32.  An f32 is modelled bit-exactly  *)
(* (IEEE-754 binary32, round to nearest, ties to even) as a record         *)
(*     [c |-> "fin", s |-> sign, m |-> mantissa, e |-> exponent]           *)
(* of value (-1)^s * m * 2^e, with either 2^23 <= m < 2^24 (normal), or    *)
(* e = F32_MIN_EXP and m < 2^23 (subnormal, zero when m = 0); the          *)
(* infinities are [c |-> "inf", s |-> sign] and NaN is one value           *)
(* [c |-> "nan"] (sign and payload of a NaN are never observed).           *)
(***************************************************************************)
EXTENDS Integers, Sequences, FiniteSets, TLC

\* ------------------------------------------------------------------ f32

\* f32: 24 significant bits; least exponent of the integer mantissa (the
\* smallest subnormal is 2^-149); greatest one (f32::MAX = (2^24 - 1) * 2^104).
F32_MANT_BITS == 24
F32_MIN_EXP == -149
F32_MAX_EXP == 104

Pow2(n) == 2 ^ n

Max(a, b) == IF a >= b THEN a ELSE b

Xor(s, t) == IF s = t THEN 0 ELSE 1

Fin(s, m, e) == [c |-> "fin", s |-> s, m |-> m, e |-> e]

Inf(s) == [c |-> "inf", s |-> s, m |-> 0, e |-> 0]

NaN == [c |-> "nan", s |-> 0, m |-> 0, e |-> 0]

Zero(s) == Fin(s, 0, F32_MIN_EXP)

IsZero(a) == a.c = "fin" /\ a.m = 0

RECURSIVE BitLen(_)
BitLen(n) == IF n = 0 THEN 0 ELSE 1 + BitLen(n \div 2)

\* The f32 of sign s and magnitude m * 2^e, m <= 2^24 already rounded.
Pack(s, m, e) ==
    LET m2 == IF m = Pow2(F32_MANT_BITS) THEN m \div 2 ELSE m
        e2 == IF m = Pow2(F32_MANT_BITS) THEN e + 1 ELSE e
    IN IF m2 = 0 THEN Zero(s)
       ELSE IF e2 > F32_MAX_EXP THEN Inf(s)
       ELSE Fin(s, m2, e2)

\* Round to nearest, ties to even, of the magnitude M * 2^e (M < 2^28).  An odd
\* M may stand for any value strictly between M - 1 and M + 1 (a sticky last
\* bit); the callers keep at least two bits below the rounding position then.
RoundPack(s, M, e) ==
    IF M = 0 THEN Zero(s)
    ELSE LET k == BitLen(M)
             drop == Max(k - F32_MANT_BITS, F32_MIN_EXP - e)
         IN IF drop <= 0 THEN Pack(s, M * Pow2(-drop), e + drop)
            ELSE IF drop > 30 THEN Zero(s)
            ELSE LET q == M \div Pow2(drop)
                     r == M % Pow2(drop)
                     half == Pow2(drop - 1)
                     up == IF r > half \/ (r = half /\ q % 2 = 1) THEN 1 ELSE 0
                 IN Pack(s, q + up, e + drop)

\* <<m', e'>> with m' * 2^e' = m * 2^e and m' of exactly 24 bits (m > 0).
Normalize(m, e) ==
    LET sh == F32_MANT_BITS - BitLen(m) IN <<m * Pow2(sh), e - sh>>

\* f32 `-a`
f32_neg(a) == IF a.c = "nan" THEN NaN ELSE [a EXCEPT !.s = 1 - a.s]

\* f32 `a + b`
f32_add(a, b) ==
    IF a.c = "nan" \/ b.c = "nan" THEN NaN
    ELSE IF a.c = "inf" /\ b.c = "inf" THEN (IF a.s = b.s THEN a ELSE NaN)
    ELSE IF a.c = "inf" THEN a
    ELSE IF b.c = "inf" THEN b
    ELSE IF a.m = 0 /\ b.m = 0 THEN Zero(IF a.s = b.s THEN a.s ELSE 0)
    ELSE IF a.m = 0 THEN b
    ELSE IF b.m = 0 THEN a
    ELSE LET x == IF a.e >= b.e THEN a ELSE b
             y == IF a.e >= b.e THEN b ELSE a
             d == x.e - y.e
             X == x.m * 8
             full == y.m * 8
             q == IF d > 27 THEN 0 ELSE full \div Pow2(d)
             lost == IF d > 27 THEN TRUE ELSE full % Pow2(d) # 0
             Y == IF lost /\ q % 2 = 0 THEN q + 1 ELSE q
             S == IF x.s = y.s THEN X + Y ELSE X - Y
         IN IF S = 0 THEN Zero(0)
            ELSE IF S > 0 THEN RoundPack(x.s, S, x.e - 3)
            ELSE RoundPack(1 - x.s, -S, x.e - 3)

\* f32 `a - b`
f32_sub(a, b) == f32_add(a, f32_neg(b))

\* f32 `a * b`
f32_mul(a, b) ==
    IF a.c = "nan" \/ b.c = "nan" THEN NaN
    ELSE IF a.c = "inf" \/ b.c = "inf"
         THEN (IF IsZero(a) \/ IsZero(b) THEN NaN ELSE Inf(Xor(a.s, b.s)))
    ELSE IF a.m = 0 \/ b.m = 0 THEN Zero(Xor(a.s, b.s))
    ELSE LET na == Normalize(a.m, a.e)
             nb == Normalize(b.m, b.e)
             a1 == na[1] \div 4096
             a0 == na[1] % 4096
             b1 == nb[1] \div 4096
             b0 == nb[1] % 4096
             mid == a1 * b0 + a0 * b1
             lowsum == (mid % 4096) * 4096 + a0 * b0
             hi == a1 * b1 + mid \div 4096 + lowsum \div Pow2(24)
             lo == lowsum % Pow2(24)
             M == (hi * 4 + lo \div Pow2(22)) * 2
                    + (IF lo % Pow2(22) # 0 THEN 1 ELSE 0)
         IN RoundPack(Xor(a.s, b.s), M, na[2] + nb[2] + 21)

\* <<quotient, remainder>> after n more steps of binary long division by d.
RECURSIVE LongDiv(_, _, _, _)
LongDiv(rem, quo, d, n) ==
    IF n = 0 THEN <<quo, rem>>
    ELSE IF 2 * rem >= d THEN LongDiv(2 * rem - d, 2 * quo + 1, d, n - 1)
    ELSE LongDiv(2 * rem, 2 * quo, d, n - 1)

\* f32 `a / b`
f32_div(a, b) ==
    IF a.c = "nan" \/ b.c = "nan" THEN NaN
    ELSE IF a.c = "inf" THEN (IF b.c = "inf" THEN NaN ELSE Inf(Xor(a.s, b.s)))
    ELSE IF b.c = "inf" THEN Zero(Xor(a.s, b.s))
    ELSE IF b.m = 0 THEN (IF a.m = 0 THEN NaN ELSE Inf(Xor(a.s, b.s)))
    ELSE IF a.m = 0 THEN Zero(Xor(a.s, b.s))
    ELSE LET na == Normalize(a.m, a.e)
             nb == Normalize(b.m, b.e)
             q0 == IF na[1] >= nb[1] THEN 1 ELSE 0
             qr == LongDiv(na[1] - q0 * nb[1], q0, nb[1], 26)
             M == 2 * qr[1] + (IF qr[2] # 0 THEN 1 ELSE 0)
         IN RoundPack(Xor(a.s, b.s), M, na[2] - nb[2] - 27)

\* f32::is_infinite
f32_is_infinite(a) == a.c = "inf"

\* f32 `a == b`
f32_eq(a, b) ==
    /\ a.c # "nan"
    /\ b.c # "nan"
    /\ (a = b \/ (IsZero(a) /\ IsZero(b)))

\* The f32 of a small integer literal, `1.0` and `0.0` among them.
FromInt(n) == IF n >= 0 THEN RoundPack(0, n, 0) ELSE RoundPack(1, -n, 0)

F0 == FromInt(0)

F1 == FromInt(1)

\* --------------------------------------------------------------- Point

\* Point { x, y }; From<(f32, f32)> copies the two fields.
Pt(x, y) == [x |-> x, y |-> y]

Point_zero == Pt(F0, F0)

Point_dot(a, rhs) == f32_add(f32_mul(a.x, rhs.x), f32_mul(a.y, rhs.y))

Point_sqr_norm(a) == f32_add(f32_mul(a.x, a.x), f32_mul(a.y, a.y))

\* times_transpose with the two off-diagonal coefficients exchanged.
Point_times_transpose_swapped(a, rhs) ==
    [m11 |-> f32_mul(a.x, rhs.x),
     m21 |-> f32_mul(a.x, rhs.y),
     m12 |-> f32_mul(a.y, rhs.x),
     m22 |-> f32_mul(a.y, rhs.y)]

Point_times_transpose(a, rhs) ==
    [m11 |-> f32_mul(a.x, rhs.x),
     m21 |-> f32_mul(a.y, rhs.x),
     m12 |-> f32_mul(a.x, rhs.y),
     m22 |-> f32_mul(a.y, rhs.y)]

Point_add(a, rhs) == Pt(f32_add(a.x, rhs.x), f32_add(a.y, rhs.y))

Point_sub(a, rhs) == Pt(f32_sub(a.x, rhs.x), f32_sub(a.y, rhs.y))

\* impl Mul<Point> for f32
Point_scale(k, rhs) == Pt(f32_mul(k, rhs.x), f32_mul(k, rhs.y))

\* ---------------------------------------------------------------- Mat2

Mat(m11, m21, m12, m22) == [m11 |-> m11, m21 |-> m21, m12 |-> m12, m22 |-> m22]

Mat2_zero == Mat(F0, F0, F0, F0)

Mat2_det(a) == f32_sub(f32_mul(a.m11, a.m22), f32_mul(a.m21, a.m12))

Mat2_add(a, rhs) ==
    Mat(f32_add(a.m11, rhs.m11), f32_add(a.m21, rhs.m21),
        f32_add(a.m12, rhs.m12), f32_add(a.m22, rhs.m22))

\* impl Mul<Mat2> for f32
Mat2_scale(k, rhs) ==
    Mat(f32_mul(k, rhs.m11), f32_mul(k, rhs.m21),
        f32_mul(k, rhs.m12), f32_mul(k, rhs.m22))

\* inv without the two negations of the adjugate.
Mat2_inv_unsigned(a) ==
    Mat2_scale(f32_div(F1, Mat2_det(a)), Mat(a.m22, a.m21, a.m12, a.m11))

\* `1.0 / self.det() * Self { .. }` is `(1.0 / self.det()) * Self { .. }`.
Mat2_inv(a) ==
    Mat2_scale(f32_div(F1, Mat2_det(a)),
               Mat(a.m22, f32_neg(a.m21), f32_neg(a.m12), a.m11))

\* impl Mul for Mat2
Mat2_mul(a, rhs) ==
    Mat(f32_add(f32_mul(a.m11, rhs.m11), f32_mul(a.m12, rhs.m21)),
        f32_add(f32_mul(a.m21, rhs.m11), f32_mul(a.m22, rhs.m21)),
        f32_add(f32_mul(a.m11, rhs.m12), f32_mul(a.m12, rhs.m22)),
        f32_add(f32_mul(a.m21, rhs.m12), f32_mul(a.m22, rhs.m22)))

\* ------------------------------------------------------- deform_affine

Min(a, b) == IF a <= b THEN a ELSE b

\* `.collect()`: the mapped sequence as a sequence of values, each element
\* computed once.
collect(f) == SubSeq(f, 1, Len(f))

\* Iterator::sum::<f32>() and the folds: left to right from the start value.
\* (An f32 sum starts from 0.0 or, in recent standard libraries, from -0.0;
\* the weights are never -0.0, so the two agree on every non-empty input and
\* an empty sum is a zero either way.)
RECURSIVE f32_sum(_, _, _)
f32_sum(acc, ws, i) ==
    IF i > Len(ws) THEN acc ELSE f32_sum(f32_add(acc, ws[i]), ws, i + 1)

RECURSIVE Point_fold(_, _, _)
Point_fold(acc, ps, i) ==
    IF i > Len(ps) THEN acc ELSE Point_fold(Point_add(acc, ps[i]), ps, i + 1)

RECURSIVE Mat2_fold(_, _, _)
Mat2_fold(acc, ms, i) ==
    IF i > Len(ms) THEN acc ELSE Mat2_fold(Mat2_add(acc, ms[i]), ms, i + 1)

\* `let sqr_dist = |p: Point| (p - v).sqr_norm();`
sqr_dist(p, v) == Point_sqr_norm(Point_sub(p, v))

\* `let weight = |pt| 1.0 / sqr_dist(pt);`
weight(pt, v) == f32_div(F1, sqr_dist(pt, v))

\* The last index of an infinite weight instead of the first.
position_infinite_last(ws, i) ==
    LET S == {j \in i..Len(ws) : f32_is_infinite(ws[j])}
    IN IF S = {} THEN 0 ELSE CHOOSE j \in S : \A k \in S : k <= j

\* `.position(|w| w.is_infinite())`: the first index (from 1 here, from 0 in
\* the source) of an infinite weight, 0 for None.
RECURSIVE position_infinite(_, _)
position_infinite(ws, i) ==
    IF i > Len(ws) THEN 0
    ELSE IF f32_is_infinite(ws[i]) THEN i
    ELSE position_infinite(ws, i + 1)

Returned(pt) == [kind |-> "return", value |-> pt, msg |-> ""]

Panicked(msg) == [kind |-> "panic", value |-> Point_zero, msg |-> msg]

NoMat == Mat(NaN, NaN, NaN, NaN)

\* Lines 28-36: the call ends here, with controls_q[index] or with the panic
\* of `expect` or of the slice index.  The record keeps what the call had
\* computed when it ended.
coincidence_branch(controls_q, w_all, w_sum) ==
    LET index == position_infinite(w_all, 1)
    IN [branch |-> "coincidence", w_all |-> w_all, w_sum |-> w_sum,
        p_star |-> Point_zero, q_star |-> Point_zero,
        mp |-> NoMat, mq |-> NoMat, m |-> NoMat,
        outcome |->
            IF index = 0
            THEN Panicked("There is an infinite sum of the weights but none is infinite")
            ELSE IF index > Len(controls_q)
            THEN Panicked("index out of bounds")
            ELSE Returned(controls_q[index])]

\* Lines 38-81: the centroids, the matrices and `todo!()`, which panics.
general_branch(controls_p, controls_q, v, w_all, w_sum) ==
    LET \* zip stops at the shorter of the two sequences
        nq == Min(Len(controls_p), Len(controls_q))
        wp_star_sum ==
            Point_fold(Point_zero,
                collect([i \in 1..Len(controls_p) |->
                            Point_scale(w_all[i], controls_p[i])]), 1)
        p_star == Point_scale(f32_div(F1, w_sum), wp_star_sum)
        wq_star_sum ==
            Point_fold(Point_zero,
                collect([i \in 1..nq |-> Point_scale(w_all[i], controls_q[i])]), 1)
        q_star == Point_scale(f32_div(F1, w_sum), wq_star_sum)
        p_hat == collect([i \in 1..Len(controls_p) |->
                            Point_sub(controls_p[i], p_star)])
        mp == Mat2_fold(Mat2_zero,
                collect([i \in 1..Len(controls_p) |->
                    Mat2_scale(w_all[i], Point_times_transpose(p_hat[i], p_hat[i]))]), 1)
        mq == Mat2_fold(Mat2_zero,
                collect([i \in 1..nq |->
                    Point_times_transpose(Point_scale(w_all[i], p_hat[i]),
                                          Point_sub(controls_q[i], q_star))]), 1)
        m == Mat2_mul(Mat2_inv(mp), mq)
    IN [branch |-> "general", w_all |-> w_all, w_sum |-> w_sum,
        p_star |-> p_star, q_star |-> q_star,
        mp |-> mp, mq |-> mq, m |-> m,
        outcome |-> Panicked("not yet implemented")]

\* f32 `a < b`
f32_lt(a, b) ==
    LET d == f32_sub(a, b) IN d.c # "nan" /\ d.s = 1 /\ ~IsZero(d)

\* deform_affine as it would be with the proximity threshold in use: a query
\* within the threshold of a control point returns that point's target.
deform_affine_snap(controls_p, controls_q, point, proximity_threshold) ==
    LET w_all == collect([i \in 1..Len(controls_p) |-> weight(controls_p[i], point)])
        w_sum == f32_sum(F0, w_all, 1)
        near == {i \in 1..Min(Len(controls_p), Len(controls_q)) :
                    f32_lt(sqr_dist(controls_p[i], point), proximity_threshold)}
    IN IF near # {}
       THEN [coincidence_branch(controls_q, w_all, w_sum) EXCEPT
                !.outcome = Returned(controls_q[CHOOSE i \in near : \A j \in near : i <= j])]
       ELSE IF f32_is_infinite(w_sum)
       THEN coincidence_branch(controls_q, w_all, w_sum)
       ELSE general_branch(controls_p, controls_q, point, w_all, w_sum)

\* What one call computes, in the order of the source: the weights, their sum
\* and one of the two branches.  proximity_threshold is read nowhere.
deform_affine(controls_p, controls_q, point, proximity_threshold) ==
    LET v == point
        w_all == collect([i \in 1..Len(controls_p) |-> weight(controls_p[i], v)])
        w_sum == f32_sum(F0, w_all, 1)
    IN IF f32_is_infinite(w_sum)
       THEN coincidence_branch(controls_q, w_all, w_sum)
       ELSE general_branch(controls_p, controls_q, v, w_all, w_sum)

\* ------------------------------------------------------------- inputs

\* Longest control sequence drawn.
MaxLen == 3

\* Matrix entries are the integers of magnitude up to MaxEntry.
MaxEntry == 3

\* 2^-64: its square, 2^-128, is a subnormal whose reciprocal overflows.
Tiny == Fin(0, Pow2(23), -87)

P2(a, b) == Pt(FromInt(a), FromInt(b))

\* Source control points: three that span the plane and one 2^-64 away from
\* the first.
PointsP == {P2(0, 0), P2(1, 0), P2(0, 1), Pt(Tiny, F0)}

\* Offsets of a translation; the first makes the targets the sources.
Offsets == {P2(0, 0), P2(2, 3)}

Queries == {P2(0, 0), P2(2, 1), Pt(Tiny, Tiny)}

Thresholds == {F0, F1}

SeqsUpTo(S, n) == UNION {[1..k -> S] : k \in 0..n}

Translate(ps, t) == [i \in 1..Len(ps) |-> Point_add(ps[i], t)]

Reversed(ps) == [i \in 1..Len(ps) |-> ps[Len(ps) + 1 - i]]

\* k targets, no two of them equal: (2,3), (3,5), (4,7), ...
Targets(k) == [i \in 1..k |-> P2(i + 1, 2 * i + 1)]

Entries == {FromInt(n) : n \in -MaxEntry..MaxEntry}

NoRun == [branch |-> "none"]

VARIABLES controls_p, controls_q, point, proximity_threshold, pc, run,
          threshold2, run2, mat, mat_inv, prod_l, prod_r

vars == <<controls_p, controls_q, point, proximity_threshold, pc, run,
          threshold2, run2, mat, mat_inv, prod_l, prod_r>>

mat_vars == <<mat, mat_inv, prod_l, prod_r>>

\* A caller's arguments.  The sources are any sequence of control points; the
\* targets are the sources moved by one offset, the sources in reverse order,
\* or pairwise distinct points of any length (so of another length than the
\* sources, too: nothing in the signature ties the two slices).
Init ==
    /\ controls_p \in SeqsUpTo(PointsP, MaxLen)
    /\ controls_q \in {Translate(controls_p, t) : t \in Offsets}
                        \cup {Reversed(controls_p)}
                        \cup {Targets(k) : k \in 0..MaxLen}
    /\ point \in Queries
    /\ proximity_threshold \in Thresholds
    /\ pc = "start"
    /\ run = NoRun
    /\ threshold2 = proximity_threshold
    /\ run2 = NoRun
    /\ mat = Mat2_zero
    /\ mat_inv = NoMat
    /\ prod_l = NoMat
    /\ prod_r = NoMat

\* deform_affine(controls_p, controls_q, point, proximity_threshold)
Call ==
    /\ pc = "start"
    /\ run' = deform_affine(controls_p, controls_q, point, proximity_threshold)
    /\ pc' = "done"
    /\ UNCHANGED <<controls_p, controls_q, point, proximity_threshold,
                   threshold2, run2>>
    /\ UNCHANGED mat_vars

\* The same call once more with another proximity_threshold.
CallAgain ==
    /\ pc = "done"
    /\ \E t \in Thresholds \ {proximity_threshold} :
        /\ threshold2' = t
        /\ run2' = deform_affine(controls_p, controls_q, point, t)
    /\ pc' = "again"
    /\ UNCHANGED <<controls_p, controls_q, point, proximity_threshold, run>>
    /\ UNCHANGED mat_vars

Next == Call \/ CallAgain

Spec == Init /\ [][Next]_vars

\* Mat2::inv as a pure function: any matrix of small integer entries, then its
\* inverse and the two products with it.
InitMat ==
    /\ mat \in {Mat(a, b, c, d) : a \in Entries, b \in Entries,
                                  c \in Entries, d \in Entries}
    /\ mat_inv = NoMat
    /\ prod_l = NoMat
    /\ prod_r = NoMat
    /\ controls_p = <<>>
    /\ controls_q = <<>>
    /\ point = Point_zero
    /\ proximity_threshold = F0
    /\ pc = "mat"
    /\ run = NoRun
    /\ threshold2 = F0
    /\ run2 = NoRun

Invert ==
    /\ pc = "mat"
    /\ mat_inv' = Mat2_inv(mat)
    /\ prod_l' = Mat2_mul(mat, Mat2_inv(mat))
    /\ prod_r' = Mat2_mul(Mat2_inv(mat), mat)
    /\ pc' = "inverted"
    /\ UNCHANGED <<mat, controls_p, controls_q, point, proximity_threshold,
                   run, threshold2, run2>>

NextMat == Invert

SpecMat == InitMat /\ [][NextMat]_vars

\* ------------------------------------------------------------- claims

N == Len(controls_p)

Called == pc \in {"done", "again"}

\* The precondition of the contract: equal lengths, at least one pair.
WellFormed == Len(controls_p) = Len(controls_q) /\ Len(controls_p) >= 1

\* `==` on (f32, f32)
PtEq(a, b) == f32_eq(a.x, b.x) /\ f32_eq(a.y, b.y)

First(S) == CHOOSE i \in S : \A j \in S : i <= j

\* The control points the query coincides with.
Coincident == {i \in 1..N : PtEq(controls_p[i], point)}

\* The control points whose weight 1 / |p_i - v|^2 is infinite.
InfiniteWeight ==
    {i \in 1..N :
        f32_is_infinite(f32_div(F1, Point_sqr_norm(Point_sub(controls_p[i], point))))}

\* 2^-128, the greatest f32 whose reciprocal overflows to +inf.
TwoPowMinus128 == Fin(0, Pow2(21), F32_MIN_EXP)

\* Control point k is not the query, yet so near that its weight is infinite.
NearButDistinct(k) ==
    /\ ~PtEq(controls_p[k], point)
    /\ ~f32_lt(TwoPowMinus128, Point_sqr_norm(Point_sub(controls_p[k], point)))

\* C1 as stated: when the query equals some control point p_i, the call
\* returns exactly q_i for the smallest such i.
C1_ExactInterpolation ==
    (Called /\ WellFormed /\ Coincident # {})
        => run.outcome = Returned(controls_q[First(Coincident)])

\* C1, amended: when the query equals some control point, the call returns
\* exactly q_j for the smallest j whose weight is infinite; j is at most the
\* smallest coincident index, and is that index unless an earlier control
\* point lies within underflow distance of the query.
C1_FirstInfiniteWeight ==
    (Called /\ WellFormed /\ Coincident # {})
        => /\ InfiniteWeight # {}
           /\ First(InfiniteWeight) <= First(Coincident)
           /\ run.outcome = Returned(controls_q[First(InfiniteWeight)])
           /\ (\A k \in 1..(First(Coincident) - 1) : ~NearButDistinct(k))
                => run.outcome = Returned(controls_q[First(Coincident)])

\* The query coincides with two control points of different targets and the
\* first one's target is returned.
C1_Witness ==
    /\ Called /\ WellFormed
    /\ \E i \in Coincident : \E j \in Coincident :
          i < j /\ ~PtEq(controls_q[i], controls_q[j])
    /\ run.outcome = Returned(controls_q[First(Coincident)])

\* C2: with the targets equal to the sources and a query that coincides with
\* no control point, the call returns the query.
C2_IdentityLaw ==
    (Called /\ WellFormed /\ controls_q = controls_p /\ Coincident = {})
        => run.outcome.kind = "return" /\ PtEq(run.outcome.value, point)

\* C3: with every target its source moved by one offset t, the call returns
\* the query moved by t, for any query.
C3_TranslationLaw ==
    \A t \in Offsets :
        (Called /\ WellFormed /\ controls_q = Translate(controls_p, t))
            => /\ run.outcome.kind = "return"
               /\ PtEq(run.outcome.value, Point_add(point, t))

\* C4: control sequences of different lengths, or empty ones, are rejected
\* with an explicit failure before anything is computed: the call neither
\* returns a point nor panics.
C4_InvalidInputRejected ==
    (Called /\ ~WellFormed)
        => run.outcome.kind = "error" /\ run.branch = "rejected"

\* C5: with two or more control points whose sources are all equal, the call
\* reports a failure (degenerate geometry or invalid input) and returns no
\* point.
C5_DegenerateDetected ==
    (Called /\ WellFormed /\ N >= 2
        /\ \A i \in 1..N : PtEq(controls_p[i], controls_p[1]))
        => run.outcome.kind = "error"

\* C6: every call with equal-length, non-empty control sequences returns a
\* point, in the coincidence branch and in the general branch.
C6_Completion ==
    (Called /\ WellFormed) => run.outcome.kind = "return"

Outer(a, b) ==
    [m11 |-> f32_mul(a.x, b.x), m12 |-> f32_mul(a.x, b.y),
     m21 |-> f32_mul(a.y, b.x), m22 |-> f32_mul(a.y, b.y)]

\* C8: in the general case M = inverse(Mp) * Mq, with Mp the sum of
\* w_i * outer(p_i - p*, p_i - p*), Mq the sum of w_i * outer(p_i - p*,
\* q_i - q*), w_i = 1 / |p_i - v|^2, p* and q* the w-weighted means, and
\* outer(a, b) the matrix a * b^T.  (The weight of Mq multiplies the left
\* vector of the outer product, and a mean is the weighted sum times
\* 1 / w_sum, as in the source.)
C8_LinearPart ==
    (Called /\ WellFormed /\ run.branch = "general")
        => LET w == collect([i \in 1..N |->
                        f32_div(F1, Point_sqr_norm(Point_sub(controls_p[i], point)))])
               w_sum == f32_sum(F0, w, 1)
               mean(ps) ==
                   Point_scale(f32_div(F1, w_sum),
                       Point_fold(Point_zero,
                           collect([i \in 1..N |-> Point_scale(w[i], ps[i])]), 1))
               p_mean == mean(controls_p)
               q_mean == mean(controls_q)
               p_hat == collect([i \in 1..N |-> Point_sub(controls_p[i], p_mean)])
               q_hat == collect([i \in 1..N |-> Point_sub(controls_q[i], q_mean)])
               Mp == Mat2_fold(Mat2_zero,
                        collect([i \in 1..N |->
                            Mat2_scale(w[i], Outer(p_hat[i], p_hat[i]))]), 1)
               Mq == Mat2_fold(Mat2_zero,
                        collect([i \in 1..N |->
                            Outer(Point_scale(w[i], p_hat[i]), q_hat[i])]), 1)
           IN /\ run.mp = Mp
              /\ run.mq = Mq
              /\ run.m = Mat2_mul(Mat2_inv(Mp), Mq)

Finite(a) == a.c = "fin"

MatFinite(a) == Finite(a.m11) /\ Finite(a.m12) /\ Finite(a.m21) /\ Finite(a.m22)

\* A general-case call on three control points whose Mp is invertible and
\* whose Mq is not symmetric: M is a matrix of finite entries.
C8_Witness ==
    /\ Called /\ WellFormed /\ N = 3
    /\ run.branch = "general"
    /\ ~IsZero(Mat2_det(run.mp))
    /\ ~f32_eq(run.mq.m12, run.mq.m21)
    /\ MatFinite(run.m)

Identity == Mat(F1, F0, F0, F1)

\* `==` entry by entry
MatEq(a, b) ==
    /\ f32_eq(a.m11, b.m11) /\ f32_eq(a.m12, b.m12)
    /\ f32_eq(a.m21, b.m21) /\ f32_eq(a.m22, b.m22)

C9_det == f32_sub(f32_mul(mat.m11, mat.m22), f32_mul(mat.m21, mat.m12))

\* (1/det) * [[m22, -m12], [-m21, m11]]
C9_formula ==
    LET k == f32_div(F1, C9_det)
    IN [m11 |-> f32_mul(k, mat.m22), m12 |-> f32_mul(k, f32_neg(mat.m12)),
        m21 |-> f32_mul(k, f32_neg(mat.m21)), m22 |-> f32_mul(k, mat.m11)]

C9_NoFiniteEntry ==
    /\ ~Finite(mat_inv.m11) /\ ~Finite(mat_inv.m12)
    /\ ~Finite(mat_inv.m21) /\ ~Finite(mat_inv.m22)

\* The determinant is 2^k or -2^k.
C9_PowerOfTwo == Finite(C9_det) /\ C9_det.m = Pow2(F32_MANT_BITS - 1)

\* C9 as stated: the inverse is (1/det) * [[m22, -m12], [-m21, m11]], so
\* that for every matrix of non-zero determinant m * inverse(m) and
\* inverse(m) * m are the identity; for det = 0 the inverse is a matrix of
\* non-finite entries.
C9_InverseIsExact ==
    pc = "inverted"
        => /\ mat_inv = C9_formula
           /\ ~IsZero(C9_det)
                => MatEq(prod_l, Identity) /\ MatEq(prod_r, Identity)
           /\ IsZero(C9_det) => C9_NoFiniteEntry

\* C9, amended: the inverse is (1/det) * [[m22, -m12], [-m21, m11]]; for a
\* matrix of small integer entries whose determinant is plus or minus a
\* power of two (nothing is rounded then) both products are the identity;
\* for det = 0 the inverse is a matrix of non-finite entries.
C9_InverseUpToRounding ==
    pc = "inverted"
        => /\ mat_inv = C9_formula
           /\ C9_PowerOfTwo
                => MatEq(prod_l, Identity) /\ MatEq(prod_r, Identity)
           /\ IsZero(C9_det) => C9_NoFiniteEntry

\* The inverse of a matrix of four non-zero entries and determinant 4 or -4.
C9_Witness ==
    /\ pc = "inverted"
    /\ ~IsZero(mat.m11) /\ ~IsZero(mat.m12)
    /\ ~IsZero(mat.m21) /\ ~IsZero(mat.m22)
    /\ C9_det \in {FromInt(4), FromInt(-4)}
    /\ MatEq(prod_l, Identity) /\ MatEq(prod_r, Identity)

\* C10: whenever the sum of the weights is infinite one of the weights is
\* infinite, so the search of the coincidence branch finds an index and the
\* call returns: a sum of finite weights never reaches infinity.
C10_LookupNeverFails ==
    (Called /\ WellFormed /\ f32_is_infinite(run.w_sum))
        => /\ \E i \in 1..N : f32_is_infinite(run.w_all[i])
           /\ run.outcome.kind = "return"
====
